---- MODULE Spec2Model ----
(***************************************************************************)
(* Model of the BashBook notebook Controller                               *)
(* (src/src/extension/Controller.ts): the execution queue, the single     *)
(* "isExecuting" slot, the cancellation observer, the per-chunk callback   *)
(* and the completion path around one shared Pty.                          *)
(*                                                                         *)
(* JavaScript runs every handler to completion, so each handler is one     *)
(* atomic action.  The Pty, updateCommand and ansiRegex modules are        *)
(* imported by the controller; the Pty is modelled at its interface (a     *)
(* pending future and a chunk callback per writeCommand call), and         *)
(* updateCommand either returns or throws.                                 *)
(***************************************************************************)
EXTENDS Integers, Sequences, FiniteSets, TLC

\* ------------------------------------------------------------------ bounds
MaxSubmits == 3      \* number of doExecution calls explored
MaxEvents == 2       \* cancellations, chunks and inputs explored

\* ------------------------------------------------------------------ inputs
None == 0
Uris == {1, 2}
ColsValues == {80, 120}
Bytes == {"y"}

\* A cell text is the sequence of its lines (the result of split("\n")),
\* each line a sequence of characters.
Texts ==
  { << <<" ">>, <<>> >>,                          \* " \n"
    << <<" ", "a">>, <<>>, <<"b", " ">> >> }      \* " a\n\nb "

\* The output of the shell, in the chunks in which the Pty delivers it, one
\* after the other, to whichever command is running; "ESC" is the escape
\* character.
OutputStream ==
  << <<"ESC", "[", "3", "m", "o">>,
     <<"p">>,
     <<"q", "ESC", "[", "m">>,
     <<"ESC", "r">> >>

VARIABLES
  executionQueue,   \* Controller.executionQueue: sequence of request ids
  isExecuting,      \* Controller.isExecuting: a request id, or None
  executionOrder,   \* Controller.executionOrder
  execs,            \* the executions created so far, in the order of their creation
  pty,              \* the Pty: columns, write log, terminate count, writeCommand log
  forwarded         \* the number of Controller.onData(uri, data) calls made
                    \* so far, and the arguments of the last one

vars == <<executionQueue, isExecuting, executionOrder, execs, pty, forwarded>>

\* ------------------------------------------------------- pure functions
IsSpace(c) == c = " "

RECURSIVE TrimLeft(_)
TrimLeft(l) == IF l # <<>> /\ IsSpace(Head(l)) THEN TrimLeft(Tail(l)) ELSE l

RECURSIVE TrimRight(_)
TrimRight(l) ==
  IF l # <<>> /\ IsSpace(l[Len(l)]) THEN TrimRight(SubSeq(l, 1, Len(l) - 1)) ELSE l

\* a trim that leaves the line as it is
TrimNothing(l) == l

\* String.prototype.trim
Trim(l) == TrimRight(TrimLeft(l))

\* .map((command) => command.trim()).filter(Boolean)
Commands(text) ==
  SelectSeq([i \in 1..Len(text) |-> Trim(text[i])], LAMBDA l : l # <<>>)

\* Array.prototype.join
RECURSIVE Join(_, _)
Join(parts, sep) ==
  IF parts = <<>> THEN <<>>
  ELSE IF Len(parts) = 1 THEN parts[1]
  ELSE parts[1] \o sep \o Join(Tail(parts), sep)

IsDigit(c) == c \in {"0", "1", "2", "3", "4", "5", "6", "7", "8", "9"}

RECURSIVE SkipDigits(_)
SkipDigits(s) == IF s # <<>> /\ IsDigit(Head(s)) THEN SkipDigits(Tail(s)) ELSE s

\* data.replace(ansiRegex, ""): removes every ESC [ digits m sequence
RECURSIVE Strip(_)
Strip(s) ==
  IF s = <<>> THEN <<>>
  ELSE IF Head(s) = "ESC" /\ Len(s) >= 2 /\ s[2] = "["
       THEN LET rest == SkipDigits(Tail(Tail(s)))
            IN IF rest # <<>> /\ Head(rest) = "m"
               THEN Strip(Tail(rest))
               ELSE <<Head(s)>> \o Strip(Tail(s))
       ELSE <<Head(s)>> \o Strip(Tail(s))

\* ------------------------------------------------------------ the state
\* The controller state a handler works on.
State ==
  [executionQueue |-> executionQueue, isExecuting |-> isExecuting,
   executionOrder |-> executionOrder, execs |-> execs, pty |-> pty]

\* createNotebookCellExecution + the CommandExecution record + the closure
\* variables of runExecutionQueue (dataParts, firstCommand).
NewExecution(order, text, uri, command) ==
  [text |-> text, uri |-> uri, command |-> command, executionOrder |-> order,
   cancelRequested |-> FALSE,   \* execution.token.isCancellationRequested
   cancelledWhile |-> "never",  \* where the request was when its token fired
   ended |-> <<>>,              \* the execution.end(success) calls
   calls |-> <<>>,              \* the appendOutput / replaceOutput calls
   transformed |-> FALSE,       \* updateCommand was called
   dataParts |-> <<>>, firstCommand |-> TRUE,
   received |-> 0,              \* chunks the Pty delivered
   resolved |-> FALSE,          \* the writeCommand future resolved
   phase |-> "created"]

\* new Pty(shell): a terminal 80 columns wide, nothing written, nothing running
InitPty ==
  [cols |-> 80, writes |-> <<>>, terminates |-> 0, commands |-> <<>>]

Init ==
  /\ executionQueue = <<>>
  /\ isExecuting = None
  /\ executionOrder = 0
  /\ execs = <<>>
  /\ pty = InitPty
  /\ forwarded = [n |-> 0, uri |-> None, data |-> ""]

\* ------------------------------------------------- NotebookCellExecution
\* execution.end(success, Date.now())
ExecutionEnd(s, id, success) ==
  [s EXCEPT !.execs[id].ended = Append(@, success)]

\* execution.appendOutput(new NotebookCellOutput(items))
AppendOutput(s, id, items) ==
  [s EXCEPT !.execs[id].calls = Append(@, [op |-> "append", items |-> items])]

\* execution.replaceOutput(new NotebookCellOutput(items))
ReplaceOutput(s, id, items) ==
  [s EXCEPT !.execs[id].calls = Append(@, [op |-> "replace", items |-> items])]

\* ------------------------------------------------------------------ Pty
\* pty.write(data)
PtyWrite(s, data) == [s EXCEPT !.pty.writes = Append(@, data)]

\* pty.terminate()
PtyTerminate(s) == [s EXCEPT !.pty.terminates = @ + 1]

\* pty.writeCommand(updatedCommand, onData): the command runs until the
\* returned future settles
PtyWriteCommand(s, id) ==
  [s EXCEPT !.pty.commands = Append(@, id), !.execs[id].phase = "running"]

\* ----------------------------------------------------------- Controller
\* a test that only asks whether something is executing
IsExecutingAny(s, uri) == s.isExecuting # None

\* this.isExecuting?.uri === uri
IsExecutingUri(s, uri) ==
  s.isExecuting # None /\ s.execs[s.isExecuting].uri = uri

\* Controller.onData(uri, data)
onData(s, uri, data) ==
  IF IsExecutingUri(s, uri) THEN PtyWrite(s, data) ELSE s

\* Controller.setCols(cols)
setCols(s, cols) == [s EXCEPT !.pty.cols = cols]

\* a catch block that leaves the failed request in the slot
TransformFailedKeepsSlot(s, id) ==
  LET s1 == ReplaceOutput(s, id, <<[type |-> "error"]>>)
      s2 == ExecutionEnd(s1, id, FALSE)
  IN [s2 EXCEPT !.execs[id].phase = "failed"]

\* the catch block around updateCommand
TransformFailed(s, id) ==
  LET s1 == ReplaceOutput(s, id, <<[type |-> "error"]>>)
      s2 == ExecutionEnd(s1, id, FALSE)
  IN [s2 EXCEPT !.isExecuting = None, !.execs[id].phase = "failed"]

\* this.executionQueue.shift()
Shift(q) == [head |-> Head(q), rest |-> Tail(q)]

\* a test that finds no request cancelled
NeverCancelled(e) == FALSE

\* execution.token.isCancellationRequested, when a request is taken from
\* the queue
AlreadyCancelled(e) == e.cancelRequested

\* Controller.runExecutionQueue(); throws: updateCommand throws for the
\* request that is promoted
RECURSIVE runExecutionQueue(_, _)
runExecutionQueue(s, throws) ==
  IF Len(s.executionQueue) = 0 \/ s.isExecuting # None THEN s
  ELSE LET id == Shift(s.executionQueue).head
           s1 == [s EXCEPT !.executionQueue = Shift(s.executionQueue).rest]
       IN IF AlreadyCancelled(s1.execs[id])
          THEN runExecutionQueue([s1 EXCEPT !.execs[id].phase = "skipped"], throws)
          ELSE LET s2 == [s1 EXCEPT !.isExecuting = id,
                                    !.execs[id].transformed = TRUE]
               IN IF throws THEN TransformFailed(s2, id)
                  ELSE PtyWriteCommand(s2, id)

\* a transcript part that keeps the chunk as it came
RawPart(data) == data

\* data.replace(ansiRegex, "")
TranscriptPart(data) == Strip(data)

\* a test that lets every chunk through
NeverDrops(e) == FALSE

\* execution.token.isCancellationRequested, when a chunk arrives
Drops(e) == e.cancelRequested

\* the width the terminal had when it was created
ColsAtStart(s) == InitPty.cols

\* this.pty.getCols()
GetCols(s) == s.pty.cols

\* the onData closure of runExecutionQueue
onDataCallback(s, id, data) ==
  LET s0 == [s EXCEPT !.execs[id].received = @ + 1]
      e == s0.execs[id]
  IN IF Drops(e) THEN s0
     ELSE LET json == [type |-> "data", uri |-> e.uri, data |-> data,
                       firstCommand |-> e.firstCommand, cols |-> GetCols(s0)]
              s1 == [s0 EXCEPT !.execs[id].firstCommand = FALSE,
                               !.execs[id].dataParts = Append(@, TranscriptPart(data))]
          IN AppendOutput(s1, id, <<json>>)

\* an end closure that replaces the output whatever was received
AlwaysReplaces(e) == TRUE

\* an end closure that replaces the output when any chunk was delivered
ReplacesIfReceived(e) == e.received > 0

\* if (!firstCommand) in the end closure
EndReplaces(e) == ~e.firstCommand

\* the end closure of runExecutionQueue
endCallback(s, id, success) ==
  LET e == s.execs[id]
      s1 == IF EndReplaces(e)
            THEN ReplaceOutput(s, id,
                   << [type |-> "finished", uri |-> e.uri],
                      [type |-> "text", text |-> Join(e.dataParts, <<"\n">>)] >>)
            ELSE s
  IN ExecutionEnd(s1, id, success)

\* the .then / .catch / .finally chain on the writeCommand future
Settled(s, id, success, throws) ==
  LET s1 == endCallback(s, id, success)
      s2 == [s1 EXCEPT !.isExecuting = None, !.execs[id].phase = "settled",
                       !.execs[id].resolved = success]
  IN runExecutionQueue(s2, throws)

\* the onCancellationRequested observer of one execution
onCancellationRequested(s, id) ==
  IF IsExecutingUri(s, s.execs[id].uri) THEN PtyTerminate(s)
  ELSE ExecutionEnd(s, id, FALSE)

\* a push at the front of the queue
PushFront(q, id) == <<id>> \o q

\* this.executionQueue.push(...)
Push(q, id) == Append(q, id)

\* a counter that starts again when nothing is queued or executing
OrderAfterIdle(s) ==
  IF s.executionQueue = <<>> /\ s.isExecuting = None THEN 1
  ELSE s.executionOrder + 1

\* ++this.executionOrder
NextOrder(s) == s.executionOrder + 1

\* Controller.doExecution(cell)
doExecution(s, text, uri, throws) ==
  LET id == Len(s.execs) + 1
      order == NextOrder(s)
      commands == Commands(text)
      s1 == [s EXCEPT !.executionOrder = order,
                      !.execs = Append(@, NewExecution(order, text, uri, Join(commands, <<";", " ">>)))]
  IN IF Len(commands) = 0
     THEN LET s2 == ExecutionEnd(s1, id, TRUE)
          IN [s2 EXCEPT !.isExecuting = None, !.execs[id].phase = "blank"]
     ELSE LET s3 == [s1 EXCEPT !.executionQueue = Push(@, id),
                               !.execs[id].phase = "queued"]
          IN runExecutionQueue(s3, throws)

\* -------------------------------------------------------------- actions
Commit(t) ==
  /\ executionQueue' = t.executionQueue
  /\ isExecuting' = t.isExecuting
  /\ executionOrder' = t.executionOrder
  /\ execs' = t.execs
  /\ pty' = t.pty

\* the chunks the Pty has delivered so far
RECURSIVE SumReceived(_)
SumReceived(es) == IF es = <<>> THEN 0 ELSE Head(es).received + SumReceived(Tail(es))

\* the cancellations, chunks and inputs that have happened so far
Events ==
  Cardinality({i \in DOMAIN execs : execs[i].cancelRequested})
    + SumReceived(execs) + forwarded.n

\* the cells run so far, and the next cell not run yet: uris are only ever
\* compared for equality, so cells are numbered in the order of their first run
KnownUris ==
  LET used == {execs[i].uri : i \in DOMAIN execs}
  IN {u \in Uris : u \in used \/ \A v \in Uris : v < u => v \in used}

\* the notebook runs one cell: executeHandler -> doExecution
Submit ==
  /\ Len(execs) < MaxSubmits
  /\ \E text \in Texts, uri \in KnownUris, throws \in BOOLEAN :
       Commit(doExecution(State, text, uri, throws))
  /\ UNCHANGED forwarded

\* the cancellation token of an execution fires (at most once per token)
Cancel ==
  /\ Events < MaxEvents
  /\ \E id \in DOMAIN execs :
       /\ execs[id].phase # "blank"
       /\ ~execs[id].cancelRequested
       /\ LET s0 == [State EXCEPT !.execs[id].cancelRequested = TRUE,
                                  !.execs[id].cancelledWhile = execs[id].phase]
          IN Commit(onCancellationRequested(s0, id))
  /\ UNCHANGED forwarded

\* the chunk the Pty delivers next
NextChunk == OutputStream[(SumReceived(execs) % Len(OutputStream)) + 1]

\* the Pty delivers one chunk of a running command
Chunk ==
  /\ Events < MaxEvents
  /\ \E id \in DOMAIN execs :
       /\ execs[id].phase = "running"
       /\ Commit(onDataCallback(State, id, NextChunk))
  /\ UNCHANGED forwarded

\* the future of a running command resolves or rejects
Settle ==
  /\ \E id \in DOMAIN execs, success \in BOOLEAN, throws \in BOOLEAN :
       /\ execs[id].phase = "running"
       /\ Commit(Settled(State, id, success, throws))
  /\ UNCHANGED forwarded

\* the renderer sends input for a cell
Forward ==
  /\ Events < MaxEvents
  /\ \E uri \in Uris, data \in Bytes :
       /\ Commit(onData(State, uri, data))
       /\ forwarded' = [n |-> forwarded.n + 1, uri |-> uri, data |-> data]

\* the renderer reports a new width
Resize ==
  /\ \E cols \in ColsValues \ {pty.cols} : Commit(setCols(State, cols))
  /\ UNCHANGED forwarded

Next == Submit \/ Cancel \/ Chunk \/ Settle \/ Forward \/ Resize

Spec == Init /\ [][Next]_vars

\* the queue alone: submissions, cancellations and settlements
NextQueue == Submit \/ Cancel \/ Settle

SpecQueue == Init /\ [][NextQueue]_vars

\* the output stream of the running commands
NextStream == Submit \/ Cancel \/ Chunk \/ Settle

SpecStream == Init /\ [][NextStream]_vars

\* live input to the running command
NextInput == Submit \/ Cancel \/ Settle \/ Forward

SpecInput == Init /\ [][NextInput]_vars

\* the output stream while the renderer changes the width
NextResize == Submit \/ Chunk \/ Settle \/ Resize

SpecResize == Init /\ [][NextResize]_vars

\* ----------------------------------------------------------- vocabulary
Ids == DOMAIN execs

\* the text has no line with a character other than white space
BlankText(text) ==
  \A k \in 1..Len(text) : \A c \in 1..Len(text[k]) : text[k][c] = " "

InQueue(i) == \E k \in 1..Len(executionQueue) : executionQueue[k] = i

\* writeCommand was called for the request
Started(i) == \E k \in 1..Len(pty.commands) : pty.commands[k] = i

\* the request runs on the Pty: writeCommand was called and its future
\* has not settled
Running(i) == execs[i].phase = "running"

\* the request was taken from the queue and made the isExecuting one
Promoted(i) == execs[i].transformed

\* the step is a doExecution of a blank cell
BlankSubmitStep ==
  /\ Len(execs') = Len(execs) + 1
  /\ BlankText(execs'[Len(execs')].text)

\* the step fires the cancellation token of request i
CancelStep(i) == ~execs[i].cancelRequested /\ execs'[i].cancelRequested

\* ---------------------------------------------------------------- C1
\* C1: at most one execution has been started on the Pty (writeCommand
\* called) whose future has not yet settled.
MutualExclusion == Cardinality({i \in Ids : Running(i)}) <= 1

CancelQueuedEndsHandle ==
  [][\A i \in Ids :
       (CancelStep(i) /\ InQueue(i))
         => /\ execs'[i].ended = <<FALSE>>
            /\ execs'[i].calls = <<>>]_vars

\* ---------------------------------------------------------------- C4
\* C4: cancelling the request that is running on the Pty delivers exactly
\* one terminate signal to the Pty.
CancelRunningTerminates ==
  [][\A i \in Ids :
       (CancelStep(i) /\ Running(i))
         => pty'.terminates = pty.terminates + 1]_vars

\* ---------------------------------------------------------------- C5
\* C5: a step in which the transform fails for the promoted request drains
\* again: afterwards a request is executing or no request whose cancellation
\* was not requested is left in the queue.
TransformFailureRedrains ==
  [][(\E i \in DOMAIN execs' :
        /\ execs'[i].phase = "failed"
        /\ (i \in Ids => execs[i].phase # "failed"))
       => \/ isExecuting' # None
          \/ \A k \in 1..Len(executionQueue') :
               execs'[executionQueue'[k]].cancelRequested]_vars

\* ---------------------------------------------------------------- C6
BlankSubmitInv ==
  \A i \in Ids :
    BlankText(execs[i].text)
      => /\ execs[i].ended = <<TRUE>>
         /\ execs[i].calls = <<>>
         /\ ~Promoted(i) /\ ~Started(i) /\ ~InQueue(i)

BlankSubmitAct ==
  BlankSubmitStep
    => /\ execs'[Len(execs')].ended = <<TRUE>>
       /\ pty' = pty
       /\ \A i \in Ids : execs'[i].transformed = execs[i].transformed
                         /\ execs'[i].calls = execs[i].calls

\* C6: a Submit whose text has no non-blank line ends its handle with
\* success in that step, emits no output, and calls neither updateCommand
\* nor any Pty operation, in that step or later.
BlankSubmit == []BlankSubmitInv /\ [][BlankSubmitAct]_vars

\* a blank cell was submitted while a command runs and another waits
BlankSubmitWitness ==
  \E i, j \in Ids :
    /\ BlankText(execs[i].text) /\ j < i /\ Running(j)
    /\ executionQueue # <<>>

\* ---------------------------------------------------------------- C7
\* C7: a blank Submit leaves the queue and the isExecuting slot unchanged.
BlankSubmitFrame ==
  [][BlankSubmitStep
       => /\ executionQueue' = executionQueue
          /\ isExecuting' = isExecuting]_vars

\* ------------------------------------------------------- emitted output
RECURSIVE Flatten(_)
Flatten(calls) ==
  IF calls = <<>> THEN <<>> ELSE Head(calls).items \o Flatten(Tail(calls))

\* the output items of kind t emitted for request i, in emission order
Emitted(i, t) == SelectSeq(Flatten(execs[i].calls), LAMBDA m : m.type = t)

\* the newline-joined ANSI-stripped chunks of the emitted data messages
ExpectedTranscript(i) ==
  LET d == Emitted(i, "data")
  IN Join([k \in 1..Len(d) |-> Strip(d[k].data)], <<"\n">>)

\* ---------------------------------------------------------------- C8
\* C8: for an execution with at least one data message, no finished message
\* or transcript exists before its future settles, and from then on exactly
\* one finished message and one transcript item exist, emitted together as
\* the last, replacing output, the transcript being the newline-joined
\* stripped chunks of the emitted data messages in emission order.
FinishedTranscript ==
  \A i \in Ids :
    Emitted(i, "data") # <<>> =>
      LET f == Emitted(i, "finished")
          t == Emitted(i, "text")
          calls == execs[i].calls
      IN IF execs[i].phase = "settled"
         THEN /\ Len(f) = 1 /\ Len(t) = 1
              /\ calls[Len(calls)] =
                   [op |-> "replace",
                    items |-> << [type |-> "finished", uri |-> execs[i].uri],
                                 [type |-> "text", text |-> ExpectedTranscript(i)] >>]
         ELSE f = <<>> /\ t = <<>>

\* a settled execution with two different data messages, one with colour codes
FinishedTranscriptWitness ==
  \E i \in Ids :
    /\ execs[i].phase = "settled"
    /\ Len(Emitted(i, "data")) = 2
    /\ Emitted(i, "data")[1].data # Emitted(i, "data")[2].data
    /\ Strip(Emitted(i, "data")[1].data) # Emitted(i, "data")[1].data

\* ---------------------------------------------------------------- C9
\* C9: an execution for which no data message was emitted has no finished
\* message and no transcript item.
NoDataNoFinished ==
  \A i \in Ids :
    Emitted(i, "data") = <<>>
      => Emitted(i, "finished") = <<>> /\ Emitted(i, "text") = <<>>

\* a command settled after all its chunks were dropped
NoDataNoFinishedWitness ==
  \E i \in Ids :
    /\ execs[i].phase = "settled"
    /\ execs[i].received > 0
    /\ Emitted(i, "data") = <<>>

\* ---------------------------------------------------------------- C10
ForwardAct ==
  /\ forwarded' # forwarded =>
       LET c == forwarded'
       IN IF \E i \in Ids : isExecuting = i /\ execs[i].uri = c.uri
          THEN /\ pty' = [pty EXCEPT !.writes = Append(@, c.data)]
               /\ UNCHANGED <<executionQueue, isExecuting, executionOrder, execs>>
          ELSE UNCHANGED <<executionQueue, isExecuting, executionOrder, execs, pty>>
  /\ pty'.writes # pty.writes => forwarded' # forwarded

NewCalls(i) ==
  LET old == IF i \in Ids THEN execs[i].calls ELSE <<>>
  IN SubSeq(execs'[i].calls, Len(old) + 1, Len(execs'[i].calls))

\* the output calls made for request i before this step are still there
CallsKept(i) ==
  i \in Ids =>
    /\ Len(execs'[i].calls) >= Len(execs[i].calls)
    /\ SubSeq(execs'[i].calls, 1, Len(execs[i].calls)) = execs[i].calls

ColumnsAct ==
  \A i \in DOMAIN execs' :
    /\ CallsKept(i)
    /\ \A k \in 1..Len(NewCalls(i)) :
         \A m \in 1..Len(NewCalls(i)[k].items) :
           NewCalls(i)[k].items[m].type = "data"
             => /\ NewCalls(i)[k].items[m].cols = pty.cols
                /\ pty'.cols = pty.cols

\* C11: a data message carries the width the Pty has in the step that emits
\* it, which is the width of the last setCols call (80 before the first), and
\* no step changes a message that was emitted before.
ColumnsAtEmission == [][ColumnsAct]_vars

\* one command emitted a data message, the width was changed, and its next
\* data message carries the new width while the first keeps the old one
ColumnsAtEmissionWitness ==
  \E i \in Ids :
    /\ Len(Emitted(i, "data")) = 2
    /\ Emitted(i, "data")[1].cols = 80
    /\ Emitted(i, "data")[2].cols = 120
    /\ pty.cols = 120

\* ---------------------------------------------------------------- C12
\* updateCommand was called for the request and threw: the request was
\* promoted and writeCommand was never called for it
TransformThrew(i) == Promoted(i) /\ ~Started(i)

TransformFailureInv ==
  \A i \in Ids :
    TransformThrew(i)
      => /\ execs[i].calls = <<[op |-> "replace", items |-> <<[type |-> "error"]>>]>>
         /\ execs[i].ended # <<>>
         /\ \A k \in 1..Len(execs[i].ended) : ~execs[i].ended[k]
         /\ isExecuting # i

TransformFailureAct ==
  \A i \in DOMAIN execs' :
    (execs'[i].transformed /\ (i \in Ids => ~execs[i].transformed)
       /\ \A k \in 1..Len(pty'.commands) : pty'.commands[k] # i)
      => /\ isExecuting' = None
         /\ execs'[i].ended = <<FALSE>>
         /\ pty'.writes = pty.writes /\ pty'.terminates = pty.terminates

EndedAtSettlement ==
  [][\A i \in Ids :
       (Started(i) /\ execs'[i].ended # execs[i].ended)
         => /\ execs[i].phase = "running" /\ execs'[i].phase = "settled"
            /\ execs[i].ended = <<>>
            /\ execs'[i].ended = <<execs'[i].resolved>>]_vars

\* ---------------------------------------------------------------- C14
OrderInv ==
  /\ \A i \in Ids : execs[i].executionOrder = i
  /\ executionOrder = Len(execs)

OrderAct ==
  /\ \A i \in Ids : execs'[i].executionOrder = execs[i].executionOrder
  /\ executionOrder' >= executionOrder
  /\ (executionOrder' = executionOrder + 1) <=> (Len(execs') = Len(execs) + 1)
  /\ Len(execs') = Len(execs) + 1
       => execs'[Len(execs')].executionOrder = executionOrder + 1

\* C14: every Submit, blank or not, takes the next number: the counter grows
\* by one, the new execution carries it, it is larger than every earlier
\* number, and no step lowers the counter or changes a number given before.
OrderIncreasing == []OrderInv /\ [][OrderAct]_vars

\* three submissions: one settled, one blank, one cancelled while queued
OrderIncreasingWitness ==
  /\ executionOrder = 3
  /\ \E i, j, k \in Ids :
       /\ execs[i].phase = "settled"
       /\ BlankText(execs[j].text)
       /\ execs[k].cancelledWhile = "queued"

\* ---------------------------------------------------------------- C15
\* the future of the request in the isExecuting slot settles in this step
ActiveSettles(i) ==
  /\ isExecuting = i
  /\ execs[i].phase = "running"
  /\ execs'[i].phase = "settled"

\* the queue positions of the requests whose cancellation was not requested
LivePositions ==
  {k \in 1..Len(executionQueue) : ~execs[executionQueue[k]].cancelRequested}

\* C15: when the future of the active execution settles, the first queued
\* request whose cancellation was not requested is in the isExecuting slot
\* and started on the Pty after the step, the queue holds what was behind
\* it, and without such a request the queue and the slot are empty.
SettleDrains ==
  [][\A i \in Ids :
       ActiveSettles(i) =>
         IF LivePositions = {}
         THEN executionQueue' = <<>> /\ isExecuting' = None
         ELSE LET k == CHOOSE p \in LivePositions :
                         \A q \in LivePositions : p <= q
                  n == executionQueue[k]
              IN /\ isExecuting' = n
                 /\ execs'[n].phase = "running"
                 /\ \E c \in 1..Len(pty'.commands) : pty'.commands[c] = n
                 /\ executionQueue' =
                      SubSeq(executionQueue, k + 1, Len(executionQueue))]_vars

\* ---------------------------------------------------------------- C16
\* the Pty delivers a chunk to request i in this step
ChunkStep(i) == execs'[i].received = execs[i].received + 1

\* no data message is among the output calls made for request i in this step
NoNewData(i) ==
  \A k \in 1..Len(NewCalls(i)) :
    \A m \in 1..Len(NewCalls(i)[k].items) :
      NewCalls(i)[k].items[m].type # "data"

DataAct ==
  \A i \in Ids :
    /\ CallsKept(i)
    /\ IF ChunkStep(i) /\ ~execs[i].cancelRequested
       THEN /\ Len(NewCalls(i)) = 1
            /\ NewCalls(i)[1].op = "append"
            /\ Len(NewCalls(i)[1].items) = 1
            /\ NewCalls(i)[1].items[1].type = "data"
            /\ NewCalls(i)[1].items[1].data = NextChunk
            /\ execs'[i].dataParts = Append(execs[i].dataParts, Strip(NextChunk))
       ELSE /\ NoNewData(i)
            /\ execs'[i].dataParts = execs[i].dataParts
            /\ ChunkStep(i) => execs'[i].calls = execs[i].calls

\* C16: a chunk delivered to an execution whose cancellation was not
\* requested adds one data message with the raw chunk after the messages
\* emitted before, and its stripped text to the transcript parts; a chunk
\* delivered after the cancellation request adds no output and no
\* transcript part; no other step adds a data message or a transcript part.
DataMessages == [][DataAct]_vars

\* a chunk was delivered to a running command after its cancellation was
\* requested, and nothing was emitted for it
DataMessagesWitness ==
  \E i \in Ids :
    /\ Running(i)
    /\ execs[i].cancelledWhile = "running"
    /\ execs[i].received = 1
    /\ execs[i].calls = <<>>
    /\ execs[i].dataParts = <<>>

\* ---------------------------------------------------------------- C17
\* C17 as stated: an execution whose future has settled and to which at least
\* one chunk was delivered has a finished message and a transcript item, also
\* when all its chunks were delivered after its cancellation was requested.
FinishedIfReceived ==
  \A i \in Ids :
    (execs[i].phase = "settled" /\ execs[i].received > 0)
      => Emitted(i, "finished") # <<>> /\ Emitted(i, "text") # <<>>

\* C17: an execution whose future has settled has a finished message and a
\* transcript item exactly when a data message was emitted for it, that is
\* when a chunk was delivered before its cancellation was requested; with
\* every chunk dropped it has no output at all, and an execution that was
\* never cancelled counts every chunk delivered to it.
FinishedIffEmitted ==
  \A i \in Ids :
    /\ (execs[i].received > 0 /\ ~execs[i].cancelRequested)
         => Len(Emitted(i, "data")) = execs[i].received
    /\ execs[i].phase = "settled" =>
         IF Emitted(i, "data") # <<>>
         THEN Len(Emitted(i, "finished")) = 1 /\ Len(Emitted(i, "text")) = 1
         ELSE execs[i].calls = <<>>

\* a command was cancelled while it ran, after its one chunk had been
\* emitted, and settled with a finished message
FinishedIffEmittedWitness ==
  \E i \in Ids :
    /\ execs[i].phase = "settled"
    /\ execs[i].cancelledWhile = "running"
    /\ execs[i].received = 1
    /\ Len(Emitted(i, "finished")) = 1

\* ---------------------------------------------------------------- C18
\* the request was cancelled while it waited in the queue
CancelledInQueue(i) == execs[i].cancelledWhile = "queued"

\* runExecutionQueue takes request i from the queue in this step
Popped(i) == InQueue(i) /\ \A k \in 1..Len(executionQueue') : executionQueue'[k] # i

LazySkipInv ==
  \A i \in Ids :
    CancelledInQueue(i)
      => /\ ~Promoted(i) /\ ~Started(i)
         /\ execs[i].calls = <<>>
         /\ isExecuting # i

LazySkipAct ==
  \A i \in Ids :
    /\ CancelStep(i) => executionQueue' = executionQueue
    /\ (Popped(i) /\ execs[i].cancelRequested) =>
         /\ execs'[i].calls = execs[i].calls
         /\ execs'[i].ended = execs[i].ended
         /\ ~execs'[i].transformed
         /\ isExecuting' # i
         /\ \/ executionQueue' = <<>> /\ isExecuting' = None
            \/ \E j \in DOMAIN execs' :
                 /\ j > i
                 /\ execs'[j].transformed
                 /\ j \in Ids => InQueue(j) /\ ~execs[j].cancelRequested
                 /\ \A k \in Ids :
                      (InQueue(k) /\ i < k /\ k < j) => execs[k].cancelRequested

\* C18: a cancellation leaves the queue as it is; a request cancelled while
\* queued is taken from the queue by a later drain without a call of
\* updateCommand or writeCommand for it, without output, without entering
\* the isExecuting slot and with its handle untouched, and that drain goes
\* on to the next request whose cancellation was not requested, if any.
LazySkip == []LazySkipInv /\ [][LazySkipAct]_vars

\* a request cancelled in the queue was skipped, its handle ended with
\* failure, and a request submitted after it runs
LazySkipWitness ==
  \E i, j \in Ids :
    /\ i < j
    /\ CancelledInQueue(i) /\ ~InQueue(i)
    /\ execs[i].ended = <<FALSE>>
    /\ Running(j) /\ isExecuting = j
    /\ execs[j].cancelledWhile = "never"

\* ---------------------------------------------------------------- C19
\* C19: the handle of every execution is ended at most once, and once it
\* is ended no later step (a cancellation after the terminal step) calls
\* end on it again.
EndedAtMostOnce == \A i \in Ids : Len(execs[i].ended) <= 1

\* ---------------------------------------------------------------- C20
\* C20: a cancellation sends a terminate signal to the Pty only when the
\* cancelled request is the one running; cancelling a queued request sends
\* none, whatever cell the running request belongs to, and ends the queued
\* request's handle with failure.
CancelRouting ==
  [][\A i \in Ids :
       CancelStep(i)
         => /\ pty'.terminates # pty.terminates => Running(i) /\ isExecuting = i
            /\ InQueue(i) => /\ pty'.terminates = pty.terminates
                             /\ execs'[i].ended = <<FALSE>>]_vars

====
